---- MODULE Spec2Model ----
(***************************************************************************)
(* Water-Of-Life: the bottleraiders scraper (getSpirits / saveAllSpirits)  *)
(* and the spirits_fts search query, as state machines.                    *)
(*                                                                         *)
(* Spec        the scraper: saveAllSpirits(varieties) driving getSpirits   *)
(*             against a remote service whose responses are arbitrary.     *)
(* SearchSpec  migration 0002 filling spirits and spirits_fts from         *)
(*             whiskeys.whiskey, then the search query on spirits_fts.     *)
(***************************************************************************)
EXTENDS Integers, Sequences, FiniteSets, TLC

(***************************************************************************)
(* Bounds of the model.                                                    *)
(***************************************************************************)
\* largest pagination.totalPages the service reports
MaxTotalPages == 3
\* number of records of a full page of the service; a page is full or empty
PageSize == 2
\* largest number of rows of a whiskeys.whiskey table drawn freely from RowKinds
MaxSmallRows == 3
\* largest number of rows of a generated whiskeys.whiskey table
MaxRows == 22
\* largest number of words of a search term
MaxTermWords == 2
\* how many times over the statement that fills spirits_fts is run
MaxIndexBuilds == 2

\* LIMIT 20 of the search query
Limit == 20

(***************************************************************************)
(* JavaScript values.  A number is either NaN or an integer; the value of  *)
(* json["spirits"] is either undefined or an array of records.             *)
(***************************************************************************)
Num(n) == [nan |-> FALSE, v |-> n]

NaN == [nan |-> TRUE, v |-> 0]

\* the sentinel maxPages starts from
InitialMaxPages == Num(0 - 1)

\* maxPages = json["pagination"]["totalPages"], without the maximum
MathMaxLatest(a, b) == b

\* Math.max(a, b): NaN as soon as one argument is NaN
MathMax(a, b) ==
    IF a.nan \/ b.nan THEN NaN
    ELSE IF a.v >= b.v THEN a ELSE b

\* page <= maxPages + 1: one page too many
PageLeqOffByOne(p, m) == (~m.nan) /\ p <= m.v + 1

\* page <= maxPages: every comparison with NaN is false
PageLeq(p, m) == (~m.nan) /\ p <= m.v

\* the varieties list handed to saveAllSpirits: the first two of its entries
varieties == <<"whiskey", "rum">>

\* what pagination.totalPages of a response can be: an integer (one below
\* the sentinel, or a page count), or a value
\* Math.max turns into NaN (the key is missing, or is not numeric)
TotalPagesValues == {Num(n) : n \in {0 - 2} \cup 0..MaxTotalPages} \cup {NaN}

Rec(v, p, k) == [v |-> v, p |-> p, k |-> k]

\* the array element a missing json["spirits"] leaves behind
Undefined == Rec("", 0, 0)

\* what JSON.stringify writes for an undefined array element
Null == Rec("", 0, 1)

\* json["spirits"] of the response to (variety, page) carrying n records
Items(v, p, n) == [defined |-> TRUE, list |-> [k \in 1..n |-> Rec(v, p, k)]]

MissingItems == [defined |-> FALSE, list |-> <<>>]

SpiritsValues(v, p) == {Items(v, p, n) : n \in {0, PageSize}} \cup {MissingItems}

\* Array.prototype.flat() at depth 1: an array element is spliced in, any
\* other element (undefined) is kept as it is
RECURSIVE Flat(_)
Flat(arr) ==
    IF arr = <<>> THEN <<>>
    ELSE LET h == Head(arr)
         IN  (IF h.defined THEN h.list ELSE <<Undefined>>) \o Flat(Tail(arr))

\* JSON.stringify of an array of records: undefined elements become null
JSONStringify(arr) ==
    [k \in DOMAIN arr |-> IF arr[k] = Undefined THEN Null ELSE arr[k]]

VARIABLES
    pc,         \* where saveAllSpirits / getSpirits stands
    idx,        \* position of the for..of loop in varieties
    variety,    \* getSpirits' argument
    page,       \* getSpirits' page
    maxPages,   \* getSpirits' maxPages
    spirits,    \* getSpirits' spirits: one element per page
    requested,  \* page numbers requested in the current crawl, in order
    reported,   \* totalPages values the service reported in the current crawl
    failure,    \* why the promise of saveAllSpirits was rejected
    pending,    \* writeFile calls whose callback has not run: variety -> data
    files,      \* the files on disk: variety -> content
    whiskey,    \* the rows of whiskeys.whiskey, in rowid order
    migration,  \* state of migration 0002: "todo", "done" or "failed"
    spiritsTbl, \* the rows of table spirits, in rowid order
    spirits_fts,\* the rows of virtual table spirits_fts, in rowid order
    term,       \* $1 of the last search query
    result,     \* outcome of the last search query
    sqlError    \* the constraint the last INSERT failed on, or "none"

scraperVars == <<pc, idx, variety, page, maxPages, spirits, requested,
                 reported, failure, pending, files>>

dbVars == <<whiskey, migration, spiritsTbl, spirits_fts, term, result,
           sqlError>>

vars == <<scraperVars, dbVars>>

crawlVars == <<variety, page, maxPages, spirits, requested, reported>>

ScraperInit ==
    /\ pc = "for"
    /\ idx = 1
    /\ variety = ""
    /\ page = 1
    /\ maxPages = InitialMaxPages
    /\ spirits = <<>>
    /\ requested = <<>>
    /\ reported = {}
    /\ failure = "none"
    /\ pending = <<>>
    /\ files = <<>>

\* the database before migration 0002, with an empty whiskeys.whiskey
NoQuery == [status |-> "none", rows |-> <<>>]

DbInit(table) ==
    /\ whiskey = table
    /\ migration = "todo"
    /\ spiritsTbl = <<>>
    /\ spirits_fts = <<>>
    /\ term = <<>>
    /\ result = NoQuery
    /\ sqlError = "none"

Init == ScraperInit /\ DbInit(<<>>)

\* getSpirits with while (page <= maxPages) { ... } in place of do ... while
CallGetSpiritsWhile ==
    /\ pc = "for"
    /\ idx <= Len(varieties)
    /\ variety' = varieties[idx]
    /\ page' = 1
    /\ maxPages' = InitialMaxPages
    /\ spirits' = <<>>
    /\ requested' = <<>>
    /\ reported' = {}
    /\ pc' = IF PageLeq(page', maxPages') THEN "do" ELSE "return"
    /\ UNCHANGED <<idx, failure, pending, files>>
    /\ UNCHANGED dbVars

\* for (let variety of varieties) { let results = await getSpirits(variety)
\* : the call runs getSpirits up to its first fetch
CallGetSpirits ==
    /\ pc = "for"
    /\ idx <= Len(varieties)
    /\ variety' = varieties[idx]
    /\ page' = 1
    /\ maxPages' = InitialMaxPages
    /\ spirits' = <<>>
    /\ requested' = <<>>
    /\ reported' = {}
    /\ pc' = "do"
    /\ UNCHANGED <<idx, failure, pending, files>>
    /\ UNCHANGED dbVars

\* the loop over varieties is exhausted: saveAllSpirits' promise resolves
Resolve ==
    /\ pc = "for"
    /\ idx > Len(varieties)
    /\ pc' = "resolved"
    /\ UNCHANGED <<idx, crawlVars, failure, pending, files>>
    /\ UNCHANGED dbVars

\* the request for the next page issued together with the one for this page
FetchAhead ==
    /\ pc = "do"
    /\ requested' = requested \o <<page, page + 1>>
    /\ pc' = "await"
    /\ UNCHANGED <<idx, variety, page, maxPages, spirits, reported, failure,
                   pending, files>>
    /\ UNCHANGED dbVars

\* do { let response = await fetch(...page...variety...)
Fetch ==
    /\ pc = "do"
    /\ requested' = Append(requested, page)
    /\ pc' = "await"
    /\ UNCHANGED <<idx, variety, page, maxPages, spirits, reported, failure,
                   pending, files>>
    /\ UNCHANGED dbVars

\* the body of the loop without page += 1
AfterResponseSamePage(tp, sp) ==
    /\ maxPages' = MathMax(maxPages, tp)
    /\ spirits' = Append(spirits, sp)
    /\ page' = page
    /\ pc' = IF Len(spirits') < MaxTotalPages /\ PageLeq(page', maxPages')
             THEN "do" ELSE "return"

\* the body of the loop after the response arrived, with the loop test
AfterResponse(tp, sp) ==
    /\ maxPages' = MathMax(maxPages, tp)
    /\ spirits' = Append(spirits, sp)
    /\ page' = page + 1
    /\ pc' = IF PageLeq(page', maxPages') THEN "do" ELSE "return"

\* the service answers with a body that has pagination.totalPages = tp (or
\* none) and spirits = sp (or none)
Respond ==
    /\ pc = "await"
    /\ \E tp \in TotalPagesValues, sp \in SpiritsValues(variety, page) :
          /\ AfterResponse(tp, sp)
          /\ reported' = reported \cup {tp}
    /\ UNCHANGED <<idx, variety, requested, failure, pending, files>>
    /\ UNCHANGED dbVars

\* fetch rejects: the rejection passes through getSpirits and saveAllSpirits
TransportFailure ==
    /\ pc = "await"
    /\ pc' = "rejected"
    /\ failure' = "transport"
    /\ UNCHANGED <<idx, crawlVars, pending, files>>
    /\ UNCHANGED dbVars

\* response.json() rejects (the body is not JSON) or json["pagination"] is
\* missing and reading its totalPages throws
DecodeFailure ==
    /\ pc = "await"
    /\ pc' = "rejected"
    /\ failure' = "decode"
    /\ UNCHANGED <<idx, crawlVars, pending, files>>
    /\ UNCHANGED dbVars

\* return spirits; then writeFile(`${variety}.json`,
\* JSON.stringify(results.flat()), callback) and the next turn of the loop
WriteFile ==
    /\ pc = "return"
    /\ pending' = [v \in DOMAIN pending \cup {variety} |->
                     IF v = variety THEN JSONStringify(Flat(spirits))
                     ELSE pending[v]]
    /\ idx' = idx + 1
    /\ pc' = "for"
    /\ UNCHANGED <<crawlVars, failure, files>>
    /\ UNCHANGED dbVars

\* callbacks run only while saveAllSpirits is suspended or over
CallbacksMayRun == pc \in {"await", "resolved", "rejected"}

\* a write completes: the file holds the data, the callback gets no error
WriteSucceeds ==
    /\ CallbacksMayRun
    /\ \E v \in DOMAIN pending :
          /\ files' = [w \in DOMAIN files \cup {v} |->
                         IF w = v THEN pending[v] ELSE files[w]]
          /\ pending' = [w \in DOMAIN pending \ {v} |-> pending[w]]
    /\ UNCHANGED <<pc, idx, crawlVars, failure>>
    /\ UNCHANGED dbVars

\* a write fails and the callback drops the error: the run goes on
WriteFailsSwallowed ==
    /\ CallbacksMayRun
    /\ \E v \in DOMAIN pending :
          pending' = [w \in DOMAIN pending \ {v} |-> pending[w]]
    /\ failure' = "write"
    /\ UNCHANGED <<pc, idx, crawlVars, files>>
    /\ UNCHANGED dbVars

\* a write fails: the callback throws the error, nothing catches it
WriteFails ==
    /\ CallbacksMayRun
    /\ \E v \in DOMAIN pending :
          pending' = [w \in DOMAIN pending \ {v} |-> pending[w]]
    /\ pc' = "crashed"
    /\ failure' = "write"
    /\ UNCHANGED <<idx, crawlVars, files>>
    /\ UNCHANGED dbVars

Next ==
    \/ CallGetSpirits
    \/ Resolve
    \/ Fetch
    \/ Respond
    \/ TransportFailure
    \/ DecodeFailure
    \/ WriteFile
    \/ WriteSucceeds
    \/ WriteFails

Spec == Init /\ [][Next]_vars

(***************************************************************************)
(* Text.  A text value is a sequence of words separated by single blanks;  *)
(* Vocabulary lists the words in the byte order of BINARY collation        *)
(* (digits before upper case before lower case).                           *)
(***************************************************************************)
Vocabulary == <<"12", "18", "Glenlivet", "Macallan", "Scotch", "macallan">>

Words == {Vocabulary[i] : i \in DOMAIN Vocabulary}

Rank(w) == CHOOSE i \in DOMAIN Vocabulary : Vocabulary[i] = w

\* the token the unicode61 tokenizer of fts5 makes of a word: case folded
Fold(w) ==
    CASE w = "Glenlivet" -> "glenlivet"
      [] w = "Macallan" -> "macallan"
      [] w = "Scotch" -> "scotch"
      [] OTHER -> w

Tokens(text) == {Fold(text[i]) : i \in DOMAIN text}

\* a < b for two text values under BINARY collation
RECURSIVE TextLess(_, _)
TextLess(a, b) ==
    IF b = <<>> THEN FALSE
    ELSE IF a = <<>> THEN TRUE
    ELSE IF Rank(Head(a)) < Rank(Head(b)) THEN TRUE
    ELSE IF Rank(Head(a)) > Rank(Head(b)) THEN FALSE
    ELSE TextLess(Tail(a), Tail(b))

(***************************************************************************)
(* The rows of whiskeys.whiskey the migration reads.                       *)
(***************************************************************************)
\* nulls: the columns of the row that hold NULL
Whiskey(u, t, d, b, ty) ==
    [image_uuid |-> u, title |-> t, distiller |-> d, bottler |-> b,
     type |-> ty, abv |-> 40, age |-> <<"12">>, nulls |-> {}]

\* the row w with NULL in the columns cols
WithNull(w, cols) == [w EXCEPT !.nulls = cols]

RowKinds ==
    << Whiskey(1, <<"Macallan", "12">>, <<"Macallan">>, <<>>, <<"Scotch">>),
       Whiskey(2, <<"Macallan", "18">>, <<"Macallan">>, <<>>, <<"Scotch">>),
       Whiskey(3, <<"Glenlivet", "12">>, <<"Glenlivet">>, <<"Macallan">>,
               <<"Scotch">>),
       Whiskey(4, <<"Macallan", "12">>, <<>>, <<>>, <<"Scotch">>),
       Whiskey(5, <<"macallan", "12">>, <<"Glenlivet">>, <<>>, <<"Scotch">>) >>

RECURSIVE SeqsUpTo(_, _)
SeqsUpTo(S, n) ==
    IF n = 0 THEN {<<>>}
    ELSE LET shorter == SeqsUpTo(S, n - 1)
         IN  shorter \cup {Append(q, x) : q \in shorter, x \in S}

\* every table of at most MaxSmallRows rows taken from RowKinds
SmallTables ==
    SeqsUpTo({RowKinds[i] : i \in DOMAIN RowKinds}, MaxSmallRows)

\* the title of the k-th generated row: "Macallan" and two more words
GeneratedTitle(k) ==
    <<"Macallan", Vocabulary[(k \div Len(Vocabulary)) + 1],
      Vocabulary[(k % Len(Vocabulary)) + 1]>>

\* a table of n rows whose titles all hold the word Macallan, inserted in
\* an order that is not the order of the titles; with dup the last row
\* repeats the title of the first
GeneratedTable(n, stride, dup) ==
    [i \in 1..n |->
        Whiskey(100 + i,
                GeneratedTitle(IF dup /\ i = n /\ n > 1 THEN stride % 29
                               ELSE (i * stride) % 29),
                <<"Macallan">>, <<>>, <<"Scotch">>)]

LargeTables ==
    {GeneratedTable(n, stride, dup) :
        n \in (Limit - 1)..MaxRows, stride \in {1, 3, 7}, dup \in BOOLEAN}

(***************************************************************************)
(* Migration 0002.                                                         *)
(***************************************************************************)
\* INSERT INTO spirits (...) SELECT image_uuid, title, '', ... of one row
SpiritsRow(w) ==
    [uuid |-> w.image_uuid, name |-> w.title, description |-> <<>>,
     distiller |-> w.distiller, bottler |-> w.bottler, type |-> w.type,
     abv |-> w.abv, age |-> w.age]

\* INSERT INTO spirits_fts (...) SELECT image_uuid, title, ... of one row
FtsRow(w) ==
    [uuid |-> w.image_uuid, name |-> w.title, distiller |-> w.distiller,
     bottler |-> w.bottler, type |-> w.type]

\* uuid TEXT PRIMARY KEY: the INSERT INTO spirits fails on a repeated uuid
PrimaryKeyOK(table) ==
    \A i, j \in DOMAIN table :
        table[i].image_uuid = table[j].image_uuid => i = j

\* the constraint of table spirits that row i of the selected rows violates
\* when the rows before it are in the table: every selected column goes
\* into a NOT NULL column, and uuid is the primary key
ConstraintError(table, i) ==
    IF table[i].nulls # {} THEN "NOT NULL"
    ELSE IF \E j \in 1..(i - 1) : table[j].image_uuid = table[i].image_uuid
         THEN "UNIQUE"
    ELSE "none"

\* INSERT INTO spirits ... SELECT ... FROM whiskeys.whiskey into the empty
\* table: the first row that violates a constraint aborts the statement,
\* which then inserts no row at all
InsertError(table) ==
    LET bad == {i \in DOMAIN table : ConstraintError(table, i) # "none"}
    IN  IF bad = {} THEN "none"
        ELSE ConstraintError(table, CHOOSE i \in bad : \A j \in bad : i <= j)

\* the statements of the migration in order; a failing statement ends it
Migrate ==
    /\ migration = "todo"
    /\ sqlError' = InsertError(whiskey)
    /\ IF InsertError(whiskey) = "none"
       THEN /\ spiritsTbl' = [i \in DOMAIN whiskey |-> SpiritsRow(whiskey[i])]
            /\ spirits_fts' = [i \in DOMAIN whiskey |-> FtsRow(whiskey[i])]
            /\ migration' = "done"
       ELSE /\ spiritsTbl' = <<>>
            /\ spirits_fts' = <<>>
            /\ migration' = "failed"
    /\ UNCHANGED <<whiskey, term, result, scraperVars>>

\* the statement of lines 13-31 run again on the migrated database: every
\* selected row meets its own uuid in the table, the first one aborts the
\* statement with the table as it was
InsertSpirits ==
    /\ migration = "done"
    /\ sqlError' = IF whiskey = <<>> THEN "none" ELSE "UNIQUE"
    /\ UNCHANGED <<whiskey, migration, spiritsTbl, spirits_fts, term, result,
                   scraperVars>>

\* the statement of lines 32-38 run again on the migrated database: the
\* virtual table has no key and no constraint, the selected rows are
\* appended to the rows it holds
InsertSpiritsFts ==
    /\ migration = "done"
    /\ Len(spirits_fts) < MaxIndexBuilds * Len(whiskey)
    /\ spirits_fts' = spirits_fts \o [i \in DOMAIN whiskey |-> FtsRow(whiskey[i])]
    /\ sqlError' = "none"
    /\ UNCHANGED <<whiskey, migration, spiritsTbl, term, result, scraperVars>>

\* source rows with a repeated image_uuid and with NULL columns
ImportKinds ==
    << RowKinds[1],
       RowKinds[2],
       Whiskey(1, <<"Macallan", "18">>, <<"Glenlivet">>, <<>>, <<"Scotch">>),
       WithNull(RowKinds[3], {"distiller"}),
       WithNull(RowKinds[4], {"image_uuid"}) >>

ImportTables ==
    SeqsUpTo({ImportKinds[i] : i \in DOMAIN ImportKinds}, MaxSmallRows)

ImportInit ==
    /\ ScraperInit
    /\ \E table \in ImportTables : DbInit(table)

ImportNext ==
    \/ Migrate
    \/ InsertSpirits
    \/ InsertSpiritsFts

ImportSpec == ImportInit /\ [][ImportNext]_vars

(***************************************************************************)
(* The search query.                                                       *)
(***************************************************************************)
\* what $1 can be: blank-separated words; <<>> is the empty or blank string
Terms == SeqsUpTo(Words, MaxTermWords)

\* name MATCH $1: a column on the left of MATCH confines the query to that
\* column; the words of $1 are phrases joined by an implicit AND
Match(row, t) == \A i \in DOMAIN t : Fold(t[i]) \in Tokens(row.name)

\* the rowids of the rows WHERE name MATCH $1 selects
Matching(t) == {i \in DOMAIN spirits_fts : Match(spirits_fts[i], t)}

\* the selected rows no selected row has a greater name than
Top(ids) ==
    {i \in ids : \A j \in ids :
        ~TextLess(spirits_fts[i].name, spirits_fts[j].name)}

\* ORDER BY name DESC: every order of the rows in which names descend; the
\* order of rows of equal name is not defined by the query
RECURSIVE OrderBy(_)
OrderBy(ids) ==
    IF ids = {} THEN {<<>>}
    ELSE UNION {{<<r>> \o rest : rest \in OrderBy(ids \ {r})} :
                  r \in Top(ids)}

Take(q, n) == SubSeq(q, 1, IF Len(q) < n THEN Len(q) ELSE n)

\* the first Limit rowids, then ORDER BY: the limit applied before the sort
LimitThenOrderBy(ids) ==
    OrderBy({i \in ids : Cardinality({j \in ids : j < i}) < Limit})

\* ORDER BY name DESC LIMIT 20
OrderByLimit(ids) == {Take(q, Limit) : q \in OrderBy(ids)}

\* fts5 rejects an empty match expression: fts5: syntax error near ""
SyntaxError(t) == t = <<>>

\* SELECT uuid, name, distiller, bottler, type FROM spirits_fts
\* WHERE name MATCH $1 ORDER BY name DESC LIMIT 20
\* The query changes nothing in the database, so a behaviour runs it once:
\* every query on every index is the one query of some behaviour.
Search ==
    /\ migration = "done"
    /\ result = NoQuery
    /\ \E t \in Terms :
          /\ term' = t
          /\ IF SyntaxError(t)
             THEN result' = [status |-> "error", rows |-> <<>>]
             ELSE \E q \in OrderByLimit(Matching(t)) :
                     result' = [status |-> "ok",
                                rows |-> [k \in DOMAIN q |-> spirits_fts[q[k]]]]
    /\ UNCHANGED <<whiskey, migration, spiritsTbl, spirits_fts, sqlError,
                   scraperVars>>

SearchInit ==
    /\ ScraperInit
    /\ \E table \in SmallTables \cup LargeTables : DbInit(table)

SearchNext ==
    \/ Migrate
    \/ Search

SearchSpec == SearchInit /\ [][SearchNext]_vars

(***************************************************************************)
(* Properties of one crawl (getSpirits).                                   *)
(***************************************************************************)
MaxOf(S) == CHOOSE x \in S : \A y \in S : x >= y

\* the integer totalPages values reported so far in the current crawl
ReportedInts == {r.v : r \in {q \in reported : ~q.nan}}

\* every response of the current crawl so far carried an integer totalPages
AllReportedInts == \A r \in reported : ~r.nan

\* the crawl of the current variety has returned its result
Returned == pc = "return"

\* C1: one crawl issues at most max(1, N) page requests, N the largest
\* totalPages the service reported in it, and when every reported totalPages
\* is an integer it returns exactly when page > maxPages, having requested
\* page - 1 pages.
C1_BoundedRequests ==
    /\ Len(requested) <= MaxOf({1} \cup ReportedInts)
    /\ Len(requested) <= MaxOf({1, MaxTotalPages})
    /\ (Returned /\ AllReportedInts) =>
          /\ page > maxPages.v
          /\ Len(requested) = page - 1

C1_Witness ==
    /\ Returned
    /\ AllReportedInts
    /\ Len(requested) = MaxTotalPages
    /\ MaxTotalPages > 1

\* C2: the pages requested in one crawl are 1, 2, ..., K in this order, each
\* once; a page after the first is requested only when its number is at most
\* the largest totalPages reported before the request; when both pages
\* report totalPages = 2, pages 1 and 2 are requested and page 3 is not.
C2_PagesInOrder ==
    /\ \A i \in DOMAIN requested : requested[i] = i
    /\ (pc = "await" /\ page >= 2) =>
          (ReportedInts # {} /\ page <= MaxOf(ReportedInts))
    /\ (Len(spirits) = 2 /\ reported = {Num(2)}) =>
          (requested = <<1, 2>> /\ pc \notin {"do", "await"})

C2_Witness ==
    /\ Returned
    /\ Len(spirits) = 2
    /\ reported = {Num(2)}
    /\ requested = <<1, 2>>

\* C3: a crawl returns only after it requested page 1, and when page 1
\* reports a totalPages below 1 the loop ends with page 1 requested exactly
\* once, no other page requested, and the items of page 1 as the result.
C3_FirstRequestAlways ==
    /\ Returned => (Len(requested) >= 1 /\ requested[1] = 1)
    /\ (Len(spirits) = 1 /\ \A r \in reported : ~r.nan /\ r.v < 1) =>
          /\ requested = <<1>>
          /\ pc \notin {"do", "await"}
          /\ spirits[1].defined => Flat(spirits) = spirits[1].list
          /\ \A k \in DOMAIN Flat(spirits) :
                Flat(spirits)[k] # Undefined =>
                   (Flat(spirits)[k].v = variety /\ Flat(spirits)[k].p = 1)

C3_Witness ==
    /\ Returned
    /\ reported = {Num(0)}
    /\ requested = <<1>>
    /\ Len(Flat(spirits)) = PageSize
    /\ PageSize > 0

\* C4 as claimed: after each page with an integer totalPages, maxPages is
\* the maximum of the totalPages values reported so far in the crawl.
C4_MaxOfReported ==
    (reported # {} /\ AllReportedInts) =>
       maxPages = Num(MaxOf(ReportedInts))

\* C4, amended: within one crawl maxPages never decreases from one page to
\* the next, and while every response carried an integer totalPages it is
\* the maximum of the sentinel -1 and the totalPages values reported so far;
\* the crawl returns only past every reported value.
C4_RunningMaximum ==
    /\ [](AllReportedInts =>
            /\ maxPages = Num(MaxOf({0 - 1} \cup ReportedInts))
            /\ Returned => \A n \in ReportedInts : page > n)
    /\ [][(pc # "for" /\ ~maxPages.nan /\ ~maxPages'.nan)
             => maxPages'.v >= maxPages.v]_vars

\* a smaller totalPages came after the largest one and three pages were
\* fetched all the same
C4_Witness ==
    /\ Returned
    /\ reported = {Num(MaxTotalPages), Num(1)}
    /\ maxPages = Num(MaxTotalPages)
    /\ Len(requested) = MaxTotalPages
    /\ MaxTotalPages > 1

\* the items of a page as the service sent them: none without a spirits list
PageItems(sp) == IF sp.defined THEN sp.list ELSE <<>>

RECURSIVE Concat(_)
Concat(pages) ==
    IF pages = <<>> THEN <<>>
    ELSE PageItems(Head(pages)) \o Concat(Tail(pages))

RECURSIVE SumSizes(_)
SumSizes(pages) ==
    IF pages = <<>> THEN 0
    ELSE Len(PageItems(Head(pages))) + SumSizes(Tail(pages))

\* C5: when a crawl returns, the records handed to the writer are the
\* concatenation, in page order, of the items of the pages fetched, and
\* their number is the sum of the page sizes.
C5_Concatenation ==
    Returned =>
       /\ Flat(spirits) = Concat(spirits)
       /\ Len(JSONStringify(Flat(spirits))) = SumSizes(spirits)

\* a response of the current crawl did not have the expected shape
Malformed ==
    \/ NaN \in reported
    \/ \E i \in DOMAIN spirits : ~spirits[i].defined

\* C6: a transport or decode failure on a page aborts the crawl: the crawl
\* does not return a result, nothing is persisted for its variety, and no
\* page is requested after the failed one.
C6_FailureAborts ==
    (Malformed \/ failure \in {"transport", "decode"}) =>
       /\ ~Returned
       /\ pc \notin {"do", "await"}
       /\ variety \notin DOMAIN pending
       /\ variety \notin DOMAIN files

(***************************************************************************)
(* Properties of the run over the varieties (saveAllSpirits).              *)
(***************************************************************************)
\* the promise of saveAllSpirits resolved: the loop went through every
\* variety (a crash with the loop exhausted came after the promise resolved)
SaveAllResolved == idx > Len(varieties) /\ pc \in {"resolved", "crashed"}

\* the varieties whose crawl had not returned when the run stood at idx
NotYetWritten == {varieties[j] : j \in idx..Len(varieties)}

\* C15 as claimed: once a write failed, saveAllSpirits does not complete as
\* a success.
C15_NotASuccess == failure = "write" => ~SaveAllResolved

\* C15, amended: once the callback of a failed write ran, the run is over
\* with the uncaught error, for good, and no variety whose crawl had not
\* returned by then is persisted; saveAllSpirits itself may have resolved
\* before.
C15_WriteFailureFatal ==
    /\ [](failure = "write" =>
            /\ pc = "crashed"
            /\ \A v \in NotYetWritten :
                  v \notin DOMAIN files /\ v \notin DOMAIN pending)
    /\ [][failure = "write" => UNCHANGED vars]_vars

\* the write of the first variety failed while the second was being crawled
C15_Witness ==
    /\ failure = "write"
    /\ pc = "crashed"
    /\ idx = 2
    /\ variety = varieties[2]
    /\ Len(requested) >= 1

\* C16: at most one page request of a crawl is outstanding, and while the
\* request for a page is outstanding every earlier page has been answered
\* and maxPages holds the totalPages of all of them.
C16_Sequential ==
    /\ Len(requested) - Len(spirits) \in {0, 1}
    /\ pc \in {"do", "return", "for", "resolved"} =>
          Len(requested) = Len(spirits)
    /\ pc = "await" =>
          /\ Len(requested) = Len(spirits) + 1
          /\ requested[Len(requested)] = page
          /\ Len(spirits) = page - 1
          /\ Cardinality(reported) <= page - 1
          /\ page >= 2 => PageLeq(page, maxPages)
          /\ AllReportedInts =>
                maxPages = Num(MaxOf({0 - 1} \cup ReportedInts))

C16_Witness ==
    /\ pc = "await"
    /\ page = 2
    /\ Len(spirits) = 1
    /\ requested = <<1, 2>>

\* C17: every artifact holds records of its own variety only, and a crawl
\* that aborts does not keep the varieties after it from being crawled: the
\* run never ends rejected with varieties left.
C17_Independent ==
    /\ \A v \in DOMAIN files :
          \A k \in DOMAIN files[v] : files[v][k] # Null => files[v][k].v = v
    /\ ~(pc = "rejected" /\ idx < Len(varieties))

(***************************************************************************)
(* Properties of the search query.                                         *)
(***************************************************************************)
\* the last query ended without an error
Answered == result.status = "ok"

\* the entries of the result, as a set
ResultSet == {result.rows[k] : k \in DOMAIN result.rows}

\* the word t occurs as a token of name, distiller, bottler or type of row
OccursInEntry(row, t) ==
    Fold(t) \in Tokens(row.name) \cup Tokens(row.distiller)
                \cup Tokens(row.bottler) \cup Tokens(row.type)

EntriesWith(t) ==
    {spirits_fts[i] : i \in {j \in DOMAIN spirits_fts :
                                OccursInEntry(spirits_fts[j], t)}}

\* C7: a query for one word, on an index with at most 20 entries holding the
\* word, succeeds and returns exactly the entries in which the word occurs
\* as a token of name, distiller, bottler or type.
C7_AllFourFields ==
    (result.status # "none" /\ Len(term) = 1
       /\ Cardinality(EntriesWith(term[1])) <= Limit) =>
       (Answered /\ ResultSet = EntriesWith(term[1]))

\* the rowid of an index entry: its place in insertion order
RowIdOf(row) == CHOOSE i \in DOMAIN spirits_fts : spirits_fts[i] = row

\* C8: in every result an entry of greater name precedes an entry of smaller
\* name, and entries of equal name appear in insertion order.
C8_DescendingStable ==
    Answered =>
       \A k, l \in DOMAIN result.rows :
          k < l =>
             /\ ~TextLess(result.rows[k].name, result.rows[l].name)
             /\ result.rows[k].name = result.rows[l].name =>
                   RowIdOf(result.rows[k]) < RowIdOf(result.rows[l])

\* C9: a query with an empty or blank term succeeds with an empty result.
C9_EmptyTermNoMatches ==
    (result.status # "none" /\ term = <<>>) =>
       (Answered /\ result.rows = <<>>)

\* C10: a result has at most 20 entries, all of them distinct matches in
\* descending order of name, as many as there are matches up to 20; a match
\* that is not returned has no greater name than any returned entry.
C10_AtMostLimit ==
    Answered =>
       LET matches == {spirits_fts[i] : i \in Matching(term)}
           rows == result.rows
       IN  /\ Len(rows) <= Limit
           /\ Len(rows) = IF Cardinality(matches) < Limit
                          THEN Cardinality(matches) ELSE Limit
           /\ ResultSet \subseteq matches
           /\ Cardinality(ResultSet) = Len(rows)
           /\ \A k, l \in DOMAIN rows :
                 k < l => ~TextLess(rows[k].name, rows[l].name)
           /\ \A m \in matches \ ResultSet :
                 \A k \in DOMAIN rows : ~TextLess(rows[k].name, m.name)

C10_Witness ==
    /\ Answered
    /\ Cardinality(Matching(term)) > Limit
    /\ Len(result.rows) = Limit

(***************************************************************************)
(* Properties of the import into the store and the index.                  *)
(***************************************************************************)
\* the import has run on the source rows
Imported == migration # "todo"

\* the columns of source row w that are text, NULL read as the empty string
Filled(w, col, val) == IF col \in w.nulls THEN <<>> ELSE val

\* the entry of source row w with every absent field empty
Normalized(w) ==
    [uuid |-> w.image_uuid, name |-> Filled(w, "title", w.title),
     description |-> <<>>,
     distiller |-> Filled(w, "distiller", w.distiller),
     bottler |-> Filled(w, "bottler", w.bottler),
     type |-> Filled(w, "type", w.type),
     abv |-> w.abv, age |-> Filled(w, "age", w.age)]

\* the source rows that have an id
Normalizes(w) == "image_uuid" \notin w.nulls

Stored == {spiritsTbl[k] : k \in DOMAIN spiritsTbl}

\* the last source row with the image_uuid of row i
Latest(i) ==
    CHOOSE j \in DOMAIN whiskey :
        /\ whiskey[j].image_uuid = whiskey[i].image_uuid
        /\ \A k \in DOMAIN whiskey :
              whiskey[k].image_uuid = whiskey[i].image_uuid => k <= j

\* C11: after the import of source rows without NULLs, run once or again,
\* no two stored entries share an id, no write was rejected as a duplicate
\* and the store holds for every id the last row written with it.
C11_LaterWriteWins ==
    (Imported /\ \A i \in DOMAIN whiskey : whiskey[i].nulls = {}) =>
        /\ sqlError # "UNIQUE"
        /\ \A j, k \in DOMAIN spiritsTbl :
              spiritsTbl[j].uuid = spiritsTbl[k].uuid => j = k
        /\ Stored = {SpiritsRow(whiskey[Latest(i)]) : i \in DOMAIN whiskey}

\* C12: once the index is built, building it again leaves it with the same
\* entries.
C12_RebuildIdempotent ==
    [][migration = "done" => spirits_fts' = spirits_fts]_vars

\* C13: source rows with distinct ids whose distiller, bottler, type or age
\* is NULL are stored, with the empty string in that field.
C13_AbsentFieldsEmpty ==
    ( /\ Imported
      /\ PrimaryKeyOK(whiskey)
      /\ \A i \in DOMAIN whiskey :
            whiskey[i].nulls \subseteq {"distiller", "bottler", "type", "age"} )
    => spiritsTbl = [i \in DOMAIN whiskey |-> Normalized(whiskey[i])]

\* C14: of a batch in which some rows have no id, the rows that have one
\* (distinct ids, no other field absent) are exactly the stored entries.
C14_BadRecordAlone ==
    ( /\ Imported
      /\ PrimaryKeyOK(SelectSeq(whiskey, Normalizes))
      /\ \A i \in DOMAIN whiskey : whiskey[i].nulls \subseteq {"image_uuid"} )
    => Stored = {SpiritsRow(whiskey[i]) :
                    i \in {j \in DOMAIN whiskey : Normalizes(whiskey[j])}}

\* C18: the index holds exactly one entry for every stored id, with the
\* stored name, distiller, bottler and type, and no other entry.
C18_IndexMirrorsStore ==
    /\ \A j \in DOMAIN spiritsTbl :
          Cardinality({k \in DOMAIN spirits_fts :
                          spirits_fts[k].uuid = spiritsTbl[j].uuid}) = 1
    /\ \A k \in DOMAIN spirits_fts :
          \E j \in DOMAIN spiritsTbl :
              /\ spirits_fts[k].uuid = spiritsTbl[j].uuid
              /\ spirits_fts[k].name = spiritsTbl[j].name
              /\ spirits_fts[k].distiller = spiritsTbl[j].distiller
              /\ spirits_fts[k].bottler = spiritsTbl[j].bottler
              /\ spirits_fts[k].type = spiritsTbl[j].type

TypeOK ==
    /\ pc \in {"for", "do", "await", "return", "resolved", "rejected", "crashed"}
    /\ idx \in 1..(Len(varieties) + 1)
    /\ page >= 1
    /\ migration \in {"todo", "done", "failed"}
    /\ result.status \in {"none", "ok", "error"}
    /\ sqlError \in {"none", "UNIQUE", "NOT NULL"}
====
